---- MODULE Spec2Model ----
(***************************************************************************)
(* rlox: scanner (src/src/scanner.rs), parser (src/src/parser.rs),         *)
(* interpreter (src/src/interpreter.rs), environment                       *)
(* (src/src/environment.rs) and the run() driver (src/src/main.rs).        *)
(*                                                                         *)
(* A source text is a sequence of characters, each a one-character string. *)
(* Rust strings are UTF-8: String::len and the slices source[a..b] count   *)
(* bytes, chars().nth(i) counts characters.  Width gives the byte width of *)
(* a character, so that the two kinds of index are kept apart.             *)
(***************************************************************************)
EXTENDS Integers, Sequences, FiniteSets, TLC

VARIABLES
    pc,           \* position of run(): "scan", "parse", "gate", "interpret", "done", "panic"
    panicked,     \* "none", or the component whose code panicked
    source,       \* Scanner.source
    start,        \* Scanner.start
    current,      \* Scanner.current
    line,         \* Scanner.line
    tokens,       \* Scanner.tokens, then Parser.tokens
    spans,        \* history: <<start, current>> at each add_literal
    reports,      \* the lines written by report() (main.rs), in order
    pcurrent,     \* Parser.current
    had_error,    \* Parser.had_error
    statements,   \* the Vec<Option<Statement>> built by Parser::parse
    attempts,     \* history: one record per iteration of the parse loop
    environment,  \* Environment.values
    output,       \* the lines printed by print statements, in order
    next_stmt,    \* index of the next statement Interpreter::interpret executes
    last          \* history: result of the last Interpreter::statement call

vars == <<pc, panicked, source, start, current, line, tokens, spans, reports,
          pcurrent, had_error, statements, attempts, environment, output,
          next_stmt, last>>

scanVars   == <<source, start, current, line, spans>>
parseVars  == <<pcurrent, had_error, statements, attempts>>
interpVars == <<environment, output, next_stmt, last>>

(***************************************************************************)
(* Bounds of the model.                                                    *)
(***************************************************************************)
MaxSrcLen  == 4    \* characters of a source text (SpecScan)
MaxTokens  == 4    \* tokens before end-of-input (SpecParse)
MaxExprLen == 5    \* tokens of an expression statement before ';' (SpecExpr)
MaxPieces  == 4    \* lexical pieces of a source text (Spec)
MaxPrefix  == 3    \* prefix operators before a primary (SpecUnary)
MaxStatements == 3 \* statements of a program (SpecProgram)

(***************************************************************************)
(* Characters.                                                             *)
(***************************************************************************)
NUL   == "NUL"     \* '\0', what Scanner::peek returns at the end
NoChr == "None"    \* chars().nth(i) past the last character

Digits == {"0", "1", "2", "3", "4", "5", "6", "7", "8", "9"}

Lower == {"a", "b", "c", "d", "e", "f", "g", "h", "i", "j", "k", "l", "m",
          "n", "o", "p", "q", "r", "s", "t", "u", "v", "w", "x", "y", "z"}

Upper == {"A", "B", "C", "D", "E", "F", "G", "H", "I", "J", "K", "L", "M",
          "N", "O", "P", "Q", "R", "S", "T", "U", "V", "W", "X", "Y", "Z"}

\* Characters outside ASCII, by name: U+00E9 takes two bytes in UTF-8.
NonAscii == {"U+00E9"}

Width(c) == IF c \in NonAscii THEN 2 ELSE 1

RECURSIVE ByteLen(_)
ByteLen(s) == IF s = <<>> THEN 0 ELSE Width(Head(s)) + ByteLen(Tail(s))

\* Byte offset of the character boundary after the first i characters.
Offset(i) == ByteLen(SubSeq(source, 1, i))

IsCharBoundary(b) == \E i \in 0..Len(source) : Offset(i) = b

\* source[a..b]: panics unless a <= b <= len and both lie on character boundaries.
Slice(a, b) ==
    IF a <= b /\ IsCharBoundary(a) /\ IsCharBoundary(b)
    THEN LET i == CHOOSE k \in 0..Len(source) : Offset(k) = a
             j == CHOOSE k \in 0..Len(source) : Offset(k) = b
         IN  [ok |-> TRUE, text |-> SubSeq(source, i + 1, j)]
    ELSE [ok |-> FALSE, text |-> <<>>]

\* source.chars().nth(i)
Nth(i) == IF i < Len(source) THEN source[i + 1] ELSE NoChr

(***************************************************************************)
(* Numbers: Value::Number holds an f32.  A number is finite (sign and      *)
(* magnitude num/den in lowest terms, so that -0.0 is kept apart from      *)
(* 0.0), infinite, or NaN.  The inputs of the model are chosen so that     *)
(* every finite result is exactly representable in an f32.  A finite       *)
(* magnitude from 2^31 on is "big": the whole number num * 65536, which an *)
(* f32 holds exactly for num < 2^24.  Big numbers arise as number literals *)
(* and are negated and printed; the arithmetic of the model is on the      *)
(* magnitudes below.                                                       *)
(***************************************************************************)
RECURSIVE Gcd(_, _)
Gcd(a, b) == IF b = 0 THEN a ELSE Gcd(b, a % b)

Fin(neg, n, d) ==
    LET g == Gcd(n, d)
    IN  [cls |-> "fin", neg |-> neg, num |-> n \div g, den |-> d \div g]
Inf(neg) == [cls |-> "inf", neg |-> neg, num |-> 0, den |-> 1]
NaN      == [cls |-> "nan", neg |-> FALSE, num |-> 0, den |-> 1]
Zero     == Fin(FALSE, 0, 1)
Big(neg, m) == [cls |-> "big", neg |-> neg, num |-> m, den |-> 1]

RECURSIVE DigitsValue(_)
DigitsValue(s) ==
    IF s = <<>> THEN 0
    ELSE 10 * DigitsValue(SubSeq(s, 1, Len(s) - 1))
         + (CHOOSE d \in 0..9 : ToString(d) = s[Len(s)])

RECURSIVE Pow10(_)
Pow10(n) == IF n = 0 THEN 1 ELSE 10 * Pow10(n - 1)

\* Whether text.parse::<f32>() succeeds: decimal digits with at most one '.',
\* at least one digit ("1", "1.", ".1", "1.1").  The signed, exponent, "inf"
\* and "nan" forms Rust also accepts need characters outside the digits and
\* '.', which number() never hands to parse() for an ASCII source.
ParseOk(text) ==
    /\ \A i \in 1..Len(text) : text[i] \in Digits \cup {"."}
    /\ Cardinality({i \in 1..Len(text) : text[i] = "."}) <= 1
    /\ \E i \in 1..Len(text) : text[i] \in Digits

\* The digits' value divided by 65536: [q, r], quotient and remainder.
RECURSIVE DigitsDiv(_)
DigitsDiv(s) ==
    IF s = <<>> THEN [q |-> 0, r |-> 0]
    ELSE LET h == DigitsDiv(SubSeq(s, 1, Len(s) - 1))
             t == 10 * h.r + (CHOOSE d \in 0..9 : ToString(d) = s[Len(s)])
         IN  [q |-> 10 * h.q + t \div 65536, r |-> t % 65536]

\* The value of text.parse::<f32>() where it succeeds.
ParseNumber(text) ==
    LET dots == {i \in 1..Len(text) : text[i] = "."}
    IN  IF dots = {}
        THEN IF DigitsDiv(text).q >= 32768 THEN Big(FALSE, DigitsDiv(text).q)
             ELSE Fin(FALSE, DigitsValue(text), 1)
        ELSE LET p == CHOOSE i \in dots : TRUE
                 whole == SubSeq(text, 1, p - 1)
                 frac  == SubSeq(text, p + 1, Len(text))
             IN  Fin(FALSE, DigitsValue(whole \o frac), Pow10(Len(frac)))

(***************************************************************************)
(* Tokens (src/src/token.rs).                                              *)
(***************************************************************************)
NoLiteral     == [kind |-> "None",   s |-> <<>>, n |-> Zero]
StringLit(s)  == [kind |-> "STRING", s |-> s,    n |-> Zero]
NumberLit(n)  == [kind |-> "NUMBER", s |-> <<>>, n |-> n]

Token(tt, lexeme, literal, ln) ==
    [token_type |-> tt, lexeme |-> lexeme, literal |-> literal, line |-> ln]

Report(ln, loc, message) == [line |-> ln, loc |-> loc, message |-> message]

(***************************************************************************)
(* Scanner.  S is the scanner's mutable state together with the channel    *)
(* report() writes to: [start, current, line, tokens, spans, reports,      *)
(* panic].                                                                 *)
(***************************************************************************)
keywords ==
    [w \in { <<"a","n","d">>, <<"c","l","a","s","s">>, <<"e","l","s","e">>,
             <<"f","a","l","s","e">>, <<"f","o","r">>, <<"f","u","n">>,
             <<"i","f">>, <<"n","i","l">>, <<"o","r">>,
             <<"p","r","i","n","t">>, <<"r","e","t","u","r","n">>,
             <<"s","u","p","e","r">>, <<"t","h","i","s">>,
             <<"t","r","u","e">>, <<"v","a","r">>,
             <<"w","h","i","l","e">> } |->
        CASE w = <<"a","n","d">>             -> "AND"
          [] w = <<"c","l","a","s","s">>     -> "CLASS"
          [] w = <<"e","l","s","e">>         -> "ELSE"
          [] w = <<"f","a","l","s","e">>     -> "FALSE"
          [] w = <<"f","o","r">>             -> "FOR"
          [] w = <<"f","u","n">>             -> "FUN"
          [] w = <<"i","f">>                 -> "IF"
          [] w = <<"n","i","l">>             -> "NIL"
          [] w = <<"o","r">>                 -> "OR"
          [] w = <<"p","r","i","n","t">>     -> "PRINT"
          [] w = <<"r","e","t","u","r","n">> -> "RETURN"
          [] w = <<"s","u","p","e","r">>     -> "SUPER"
          [] w = <<"t","h","i","s">>         -> "THIS"
          [] w = <<"t","r","u","e">>         -> "TRUE"
          [] w = <<"v","a","r">>             -> "VAR"
          [] w = <<"w","h","i","l","e">>     -> "WHILE"]

Scanner_is_at_end(cur) == cur >= ByteLen(source)

Scanner_panic(S) == [S EXCEPT !.panic = TRUE]

\* error(line, message) of main.rs: report(line, "", message)
error(S, message) ==
    [S EXCEPT !.reports = Append(@, Report(S.line, <<>>, message))]

\* The character advance() returns; NoChr when its unwrap() panics.
Scanner_advance(S) ==
    IF Nth(S.current) = NoChr THEN Scanner_panic(S)
    ELSE [S EXCEPT !.current = @ + 1]

add_literal_skewed(S, tt, literal) ==
    LET t == Slice(S.start + 1, S.current)
    IN  IF ~t.ok THEN Scanner_panic(S)
        ELSE [S EXCEPT !.tokens = Append(@, Token(tt, t.text, literal, S.line)),
                       !.spans  = Append(@, <<S.start, S.current>>)]

add_literal(S, tt, literal) ==
    LET t == Slice(S.start, S.current)
    IN  IF ~t.ok THEN Scanner_panic(S)
        ELSE [S EXCEPT !.tokens = Append(@, Token(tt, t.text, literal, S.line)),
                       !.spans  = Append(@, <<S.start, S.current>>)]

add_token(S, tt) == add_literal(S, tt, NoLiteral)

\* find(expected): whether the next character is `expected`, consumed if so.
find_hit(S, expected) ==
    ~(Scanner_is_at_end(S.current) \/ Nth(S.current) # expected)

find_state(S, expected) ==
    IF find_hit(S, expected) THEN [S EXCEPT !.current = @ + 1] ELSE S

\* peek(): '\0' at the end, else chars().nth(current).unwrap()
Scanner_peek(cur) == IF Scanner_is_at_end(cur) THEN NUL ELSE Nth(cur)

\* peek_next()
peek_next(cur) ==
    IF cur + 1 >= ByteLen(source) THEN NUL ELSE Nth(cur + 1)

is_digit(c) == c \in Digits
is_alpha(c) == c \in Lower \/ c \in Upper \/ c = "_"
is_alphanumeric(c) == is_alpha(c) \/ is_digit(c)

\* while self.peek() != '\n' && !self.is_at_end() { self.advance(); }
RECURSIVE comment_loop(_)
comment_loop(S) ==
    LET c == Scanner_peek(S.current)
    IN  IF c = NoChr THEN Scanner_panic(S)
        ELSE IF c # "\n" /\ ~Scanner_is_at_end(S.current)
             THEN comment_loop(Scanner_advance(S))
             ELSE S

\* The loop of string(): up to the closing quote or the end.
RECURSIVE string_loop(_)
string_loop(S) ==
    LET c == Scanner_peek(S.current)
    IN  IF c = NoChr THEN Scanner_panic(S)
        ELSE IF c # "\"" /\ ~Scanner_is_at_end(S.current)
             THEN string_loop(Scanner_advance(
                      IF c = "\n" THEN [S EXCEPT !.line = @ + 1] ELSE S))
             ELSE S

string(S) ==
    LET S1 == string_loop(S)
    IN  IF S1.panic THEN S1
        ELSE IF Scanner_is_at_end(S1.current)
             THEN error(S1, "Unterminated string")
             ELSE LET S2 == Scanner_advance(S1)
                      t  == Slice(S2.start + 1, S2.current - 1)
                  IN  IF S2.panic THEN S2
                      ELSE IF ~t.ok THEN Scanner_panic(S2)
                      ELSE add_literal(S2, "STRING", StringLit(t.text))

\* while self.is_digit(self.peek()) { self.advance(); }
RECURSIVE digit_loop(_)
digit_loop(S) ==
    LET c == Scanner_peek(S.current)
    IN  IF c = NoChr THEN Scanner_panic(S)
        ELSE IF is_digit(c) THEN digit_loop(Scanner_advance(S))
        ELSE S

number(S) ==
    LET S1 == digit_loop(S)
    IN  IF S1.panic THEN S1
        ELSE
        LET dot == Scanner_peek(S1.current) = "."
            nx  == IF dot THEN peek_next(S1.current) ELSE NUL
        IN  IF nx = NoChr THEN Scanner_panic(S1)
            ELSE
            LET S2 == IF dot /\ is_digit(nx) THEN Scanner_advance(S1) ELSE S1
                S3 == digit_loop(S2)
                t  == Slice(S3.start, S3.current)
            IN  IF S3.panic THEN S3
                ELSE IF ~t.ok \/ ~ParseOk(t.text) THEN Scanner_panic(S3)
                ELSE add_literal(S3, "NUMBER", NumberLit(ParseNumber(t.text)))

\* while self.is_alphanumeric(self.peek()) { self.advance(); }
RECURSIVE alnum_loop(_)
alnum_loop(S) ==
    LET c == Scanner_peek(S.current)
    IN  IF c = NoChr THEN Scanner_panic(S)
        ELSE IF is_alphanumeric(c) THEN alnum_loop(Scanner_advance(S))
        ELSE S

identifier(S) ==
    LET S1 == alnum_loop(S)
        t  == Slice(S1.start, S1.current)
    IN  IF S1.panic THEN S1
        ELSE IF ~t.ok THEN Scanner_panic(S1)
        ELSE add_token(S1, IF t.text \in DOMAIN keywords
                           THEN keywords[t.text] ELSE "IDENTIFIER")

two_char(S, tt2, tt1) ==
    add_token(find_state(S, "="), IF find_hit(S, "=") THEN tt2 ELSE tt1)

scan_token(S0) ==
    LET c == Nth(S0.current)
        S == Scanner_advance(S0)
    IN  IF S.panic THEN S
        ELSE CASE c = "(" -> add_token(S, "LEFT_PAREN")
               [] c = ")" -> add_token(S, "RIGHT_PAREN")
               [] c = "{" -> add_token(S, "LEFT_BRACE")
               [] c = "}" -> add_token(S, "RIGHT_BRACE")
               [] c = "," -> add_token(S, "COMMA")
               [] c = "." -> add_token(S, "DOT")
               [] c = "-" -> add_token(S, "MINUS")
               [] c = "+" -> add_token(S, "PLUS")
               [] c = ";" -> add_token(S, "SEMICOLON")
               [] c = "*" -> add_token(S, "STAR")
               [] c = "!" -> two_char(S, "BANG_EQUAL", "BANG")
               [] c = "=" -> two_char(S, "EQUAL_EQUAL", "EQUAL")
               [] c = ">" -> two_char(S, "GREATER_EQUAL", "GREATER")
               [] c = "<" -> two_char(S, "LESS_EQUAL", "LESS")
               [] c = "/" -> IF find_hit(S, "/")
                             THEN comment_loop(find_state(S, "/"))
                             ELSE add_token(S, "SLASH")
               [] c \in {" ", "\r", "\t"} -> S
               [] c = "\n" -> [S EXCEPT !.line = @ + 1]
               [] c = "\"" -> string(S)
               [] OTHER -> IF is_digit(c) THEN number(S)
                           ELSE IF is_alpha(c) THEN identifier(S)
                           ELSE error(S, "Unexpected character.")

ScannerState ==
    [start |-> start, current |-> current, line |-> line, tokens |-> tokens,
     spans |-> spans, reports |-> reports, panic |-> FALSE]

\* One iteration of the loop of scan_tokens.
ScanStep ==
    /\ pc = "scan"
    /\ ~Scanner_is_at_end(current)
    /\ LET S == scan_token([ScannerState EXCEPT !.start = current])
       IN  /\ start' = S.start
           /\ current' = S.current
           /\ line' = S.line
           /\ tokens' = S.tokens
           /\ spans' = S.spans
           /\ reports' = S.reports
           /\ pc' = IF S.panic THEN "panic" ELSE "scan"
           /\ panicked' = IF S.panic THEN "scanner" ELSE panicked
    /\ UNCHANGED <<source, parseVars, interpVars>>

\* The end of scan_tokens: the end-of-input token, and Parser::new(tokens).
ScanEnd ==
    /\ pc = "scan"
    /\ Scanner_is_at_end(current)
    /\ tokens' = Append(tokens, Token("EOF", <<>>, NoLiteral, line))
    /\ pc' = "parse"
    /\ UNCHANGED <<panicked, source, start, current, line, spans, reports,
                   parseVars, interpVars>>

(***************************************************************************)
(* Parser.  The cursor `cur` is Parser.current.  A rule returns            *)
(* [ok, e, cur, diags]: whether it returned Ok, the node, the cursor it    *)
(* leaves and the diagnostics parse_error() reported on the way.           *)
(***************************************************************************)
NoNode == [kind |-> "None"]

Ok(e, cur, diags) == [ok |-> TRUE,  e |-> e,      cur |-> cur, diags |-> diags]
Err(cur, diags)   == [ok |-> FALSE, e |-> NoNode, cur |-> cur, diags |-> diags]

Parser_peek(cur)      == tokens[cur + 1]
Parser_previous(cur)  == tokens[cur]
Parser_is_at_end(cur) == Parser_peek(cur).token_type = "EOF"

check(cur, tt) ==
    IF Parser_is_at_end(cur) THEN FALSE ELSE Parser_peek(cur).token_type = tt

\* match_(types): whether the next token has one of the types; the caller
\* continues at cur + 1 when it does (advance()).
match_(cur, types) == \E tt \in types : check(cur, tt)

\* token_error(token, message) of main.rs
token_error(token, message) ==
    IF token.token_type = "EOF"
    THEN Report(token.line, <<" at end">>, message)
    ELSE Report(token.line, <<" at '">> \o token.lexeme \o <<"'">>, message)

\* parse_error(token, message): the diagnostic it reports
parse_error(token, message) == <<token_error(token, message)>>

consume(cur, tt, message) ==
    IF check(cur, tt)
    THEN Ok(Parser_peek(cur), cur + 1, <<>>)
    ELSE Err(cur, parse_error(Parser_peek(cur), message))

\* Expression::binary, ::grouping, ::unary, ::literal of ast.rs
binary(left, operator, right) ==
    [kind |-> "Binary", left |-> left, operator |-> operator, right |-> right]
grouping(expression) == [kind |-> "Grouping", expression |-> expression]
unary(operator, right) ==
    [kind |-> "Unary", operator |-> operator, right |-> right]
literal(token) ==
    CASE token.token_type = "TRUE"   -> [kind |-> "Literal", lit |-> "Boolean", b |-> TRUE]
      [] token.token_type = "FALSE"  -> [kind |-> "Literal", lit |-> "Boolean", b |-> FALSE]
      [] token.token_type = "NIL"    -> [kind |-> "Literal", lit |-> "Null",   token |-> token]
      [] token.token_type = "STRING" -> [kind |-> "Literal", lit |-> "String", token |-> token]
      [] token.token_type = "NUMBER" -> [kind |-> "Literal", lit |-> "Number", token |-> token]
      [] OTHER                       -> [kind |-> "Literal", lit |-> "Null",   token |-> token]
\* Expression::variable, as parser.rs:133 and interpreter.rs:188 use it
variable(token) == [kind |-> "Variable", name |-> token]

\* `let x = rule?; rest`: an Err of `rule` is returned as it is, an Ok is
\* handed to the rest of the function.
Try(r, Rest(_)) == IF ~r.ok THEN r ELSE Rest(r)

RECURSIVE expression(_), equality(_), equality_loop(_, _), comparison(_),
          comparison_loop(_, _), term(_), term_loop(_, _), factor(_),
          factor_loop(_, _), unary_rule(_), primary(_)

primary(cur) ==
    IF match_(cur, {"FALSE", "TRUE", "NIL", "STRING", "NUMBER"})
    THEN Ok(literal(Parser_peek(cur)), cur + 1, <<>>)
    ELSE IF match_(cur, {"LEFT_PAREN"})
    THEN Try(expression(cur + 1), LAMBDA r :
         Try(consume(r.cur, "RIGHT_PAREN", "Expect ')' after expression."),
             LAMBDA c : Ok(grouping(r.e), c.cur, <<>>)))
    ELSE IF match_(cur, {"IDENTIFIER"})
    THEN Ok(variable(Parser_peek(cur)), cur + 1, <<>>)
    ELSE Err(cur, parse_error(Parser_peek(cur), "Expect expression."))

\* The rule named unary in parser.rs (unary is taken by Expression::unary).
unary_rule(cur) ==
    IF match_(cur, {"MINUS", "BANG"})
    THEN Try(primary(cur + 1), LAMBDA r :
             Ok(unary(Parser_peek(cur), r.e), r.cur, <<>>))
    ELSE primary(cur)

factor_loop(e, cur) ==
    IF match_(cur, {"SLASH", "STAR"})
    THEN Try(unary_rule(cur + 1), LAMBDA r :
             factor_loop(binary(e, Parser_peek(cur), r.e), r.cur))
    ELSE Ok(e, cur, <<>>)

factor(cur) == Try(unary_rule(cur), LAMBDA l : factor_loop(l.e, l.cur))

term_loop_right_assoc(e, cur) ==
    IF match_(cur, {"MINUS", "PLUS"})
    THEN Try(term(cur + 1), LAMBDA r :
             Ok(binary(e, Parser_peek(cur), r.e), r.cur, <<>>))
    ELSE Ok(e, cur, <<>>)

term_loop(e, cur) ==
    IF match_(cur, {"MINUS", "PLUS"})
    THEN Try(factor(cur + 1), LAMBDA r :
             term_loop(binary(e, Parser_peek(cur), r.e), r.cur))
    ELSE Ok(e, cur, <<>>)

term(cur) == Try(factor(cur), LAMBDA l : term_loop(l.e, l.cur))

comparison_loop(e, cur) ==
    IF match_(cur, {"LESS", "LESS_EQUAL", "GREATER", "GREATER_EQUAL"})
    THEN Try(term(cur + 1), LAMBDA r :
             comparison_loop(binary(e, Parser_peek(cur), r.e), r.cur))
    ELSE Ok(e, cur, <<>>)

comparison(cur) == Try(term(cur), LAMBDA l : comparison_loop(l.e, l.cur))

equality_loop(e, cur) ==
    IF match_(cur, {"BANG_EQUAL", "EQUAL_EQUAL"})
    THEN Try(comparison(cur + 1), LAMBDA r :
             equality_loop(binary(e, Parser_peek(cur), r.e), r.cur))
    ELSE Ok(e, cur, <<>>)

equality(cur) == Try(comparison(cur), LAMBDA l : equality_loop(l.e, l.cur))

expression(cur) == equality(cur)

\* `self.consume(..);` with its Result dropped: the diagnostic of a failed
\* consume is reported, the cursor moves only when the token is there, and
\* the function goes on to return Ok(node).
Dropped(c, node) == Ok(node, c.cur, c.diags)

print_statement(cur) ==
    Try(expression(cur), LAMBDA v :
        Dropped(consume(v.cur, "SEMICOLON", "Expect ';' after value."),
                [kind |-> "Print", expr |-> v.e]))

expression_statement(cur) ==
    Try(expression(cur), LAMBDA v :
        Dropped(consume(v.cur, "SEMICOLON", "Expect ';' after value."),
                [kind |-> "Expression", expr |-> v.e]))

Parser_statement(cur) ==
    IF match_(cur, {"PRINT"}) THEN print_statement(cur + 1)
    ELSE expression_statement(cur)

var_declaration(cur) ==
    Try(consume(cur, "IDENTIFIER", "Expect variable name."), LAMBDA name :
    Try(IF match_(name.cur, {"EQUAL"}) THEN expression(name.cur + 1)
        ELSE Ok(NoNode, name.cur, <<>>), LAMBDA init :
        Dropped(consume(init.cur, "SEMICOLON",
                        "Expect ';' after variable declaration."),
                [kind |-> "VarDeclaration", name |-> name.e,
                 has_initializer |-> match_(name.cur, {"EQUAL"}),
                 initializer |-> init.e])))

declaration(cur) ==
    IF match_(cur, {"VAR"}) THEN var_declaration(cur + 1)
    ELSE Parser_statement(cur)

\* advance(): [cur, panic]; previous() at cursor 0 underflows and panics.
Parser_advance(cur) ==
    LET c == IF ~Parser_is_at_end(cur) THEN cur + 1 ELSE cur
    IN  [cur |-> c, panic |-> c = 0]

SyncKeywords ==
    {"CLASS", "FUN", "VAR", "FOR", "IF", "WHILE", "PRINT", "RETURN"}

RECURSIVE synchronize_loop(_)
synchronize_loop_no_keywords(cur) ==
    IF Parser_is_at_end(cur) THEN cur
    ELSE IF Parser_previous(cur).token_type = "SEMICOLON" THEN cur
    ELSE synchronize_loop(Parser_advance(cur).cur)

synchronize_loop(cur) ==
    IF Parser_is_at_end(cur) THEN cur
    ELSE IF Parser_previous(cur).token_type = "SEMICOLON" THEN cur
    ELSE IF Parser_peek(cur).token_type \in SyncKeywords THEN cur
    ELSE synchronize_loop(Parser_advance(cur).cur)

synchronize_skipped(cur) == [cur |-> cur, panic |-> FALSE]

synchronize(cur) ==
    LET a == Parser_advance(cur)
    IN  IF a.panic THEN a
        ELSE [cur |-> synchronize_loop(a.cur), panic |-> FALSE]

Some(s) == [some |-> TRUE,  stmt |-> s]
None    == [some |-> FALSE, stmt |-> NoNode]

\* The match of parse(): a slot is pushed for the declaration, and an Err
\* sets had_error.  [statements, had_error]
parse_push_no_flag(stmts, flag, r) ==
    [statements |-> Append(stmts, IF r.ok THEN Some(r.e) ELSE None),
     had_error  |-> flag]

parse_push(stmts, flag, r) ==
    [statements |-> Append(stmts, IF r.ok THEN Some(r.e) ELSE None),
     had_error  |-> IF r.ok THEN flag ELSE TRUE]

\* One iteration of the loop of Parser::parse: a declaration, and
\* synchronize() after an Err.
ParseStep ==
    /\ pc = "parse"
    /\ ~Parser_is_at_end(pcurrent)
    /\ LET r == declaration(pcurrent)
           p == parse_push(statements, had_error, r)
           s == IF r.ok THEN [cur |-> r.cur, panic |-> FALSE]
                ELSE synchronize(r.cur)
       IN  /\ statements' = p.statements
           /\ had_error' = p.had_error
           /\ pcurrent' = s.cur
           /\ reports' = reports \o r.diags
           /\ attempts' = Append(attempts,
                  [from |-> pcurrent, to |-> r.cur, ok |-> r.ok,
                   diags |-> r.diags, resume |-> s.cur])
           /\ pc' = IF s.panic THEN "panic" ELSE "parse"
           /\ panicked' = IF s.panic THEN "parser" ELSE panicked
    /\ UNCHANGED <<scanVars, tokens, interpVars>>

\* The end of Parser::parse: the loop is over and the statements are returned.
ParseEnd ==
    /\ pc = "parse"
    /\ Parser_is_at_end(pcurrent)
    /\ pc' = "parsed"
    /\ UNCHANGED <<panicked, scanVars, tokens, reports, parseVars, interpVars>>

(***************************************************************************)
(* f32 arithmetic on the numbers above (IEEE 754: signed zeros,            *)
(* infinities, NaN).                                                       *)
(***************************************************************************)
Signed(x) == IF x.neg THEN 0 - x.num ELSE x.num
Abs(i)    == IF i < 0 THEN 0 - i ELSE i
IsZero(x) == x.cls = "fin" /\ x.num = 0

NumNeg(x) == IF x.cls = "nan" THEN NaN ELSE [x EXCEPT !.neg = ~@]

NumAdd(x, y) ==
    CASE x.cls = "nan" \/ y.cls = "nan" -> NaN
      [] x.cls = "inf" /\ y.cls = "inf" -> IF x.neg = y.neg THEN x ELSE NaN
      [] x.cls = "inf" -> x
      [] y.cls = "inf" -> y
      [] OTHER ->
           LET r == Signed(x) * y.den + Signed(y) * x.den
           IN  IF r = 0 THEN Fin(x.neg /\ y.neg, 0, 1)
               ELSE Fin(r < 0, Abs(r), x.den * y.den)

NumSub(x, y) == NumAdd(x, NumNeg(y))

NumMul(x, y) ==
    CASE x.cls = "nan" \/ y.cls = "nan" -> NaN
      [] x.cls = "inf" \/ y.cls = "inf" ->
           IF IsZero(x) \/ IsZero(y) THEN NaN ELSE Inf(x.neg # y.neg)
      [] OTHER -> Fin(x.neg # y.neg, x.num * y.num, x.den * y.den)

NumDiv(x, y) ==
    CASE x.cls = "nan" \/ y.cls = "nan" -> NaN
      [] x.cls = "inf" -> IF y.cls = "inf" THEN NaN ELSE Inf(x.neg # y.neg)
      [] y.cls = "inf" -> Fin(x.neg # y.neg, 0, 1)
      [] IsZero(y) -> IF IsZero(x) THEN NaN ELSE Inf(x.neg # y.neg)
      [] OTHER -> Fin(x.neg # y.neg, x.num * y.den, x.den * y.num)

\* n1 == n2 on f32: NaN equals nothing, -0.0 equals 0.0
NumEq(x, y) ==
    CASE x.cls = "nan" \/ y.cls = "nan" -> FALSE
      [] x.cls = "inf" \/ y.cls = "inf" -> x.cls = y.cls /\ x.neg = y.neg
      [] OTHER -> Signed(x) * y.den = Signed(y) * x.den

\* n1 < n2 on f32
NumLt(x, y) ==
    CASE x.cls = "nan" \/ y.cls = "nan" -> FALSE
      [] x.cls = "inf" -> x.neg /\ ~(y.cls = "inf" /\ y.neg)
      [] y.cls = "inf" -> ~y.neg
      [] OTHER -> Signed(x) * y.den < Signed(y) * x.den

(***************************************************************************)
(* Values (interpreter.rs:6-11) and their operations.  An operation        *)
(* returns [ok, v]: Ok(v), or Err(InterpreterError).                       *)
(***************************************************************************)
Boolean(b)  == [tag |-> "Boolean", b |-> b,     s |-> <<>>, n |-> Zero]
Null        == [tag |-> "Null",    b |-> FALSE, s |-> <<>>, n |-> Zero]
String(s)   == [tag |-> "String",  b |-> FALSE, s |-> s,    n |-> Zero]
Number(n)   == [tag |-> "Number",  b |-> FALSE, s |-> <<>>, n |-> n]

VOk(v) == [ok |-> TRUE,  v |-> v]
VErr   == [ok |-> FALSE, v |-> Null]

is_truthy(v) ==
    CASE v.tag = "Null"    -> FALSE
      [] v.tag = "Boolean" -> v.b
      [] OTHER             -> TRUE

negate(v) == IF v.tag = "Number" THEN VOk(Number(NumNeg(v.n))) ELSE VErr

not(v) == IF is_truthy(v) THEN VOk(Boolean(FALSE)) ELSE VOk(Boolean(TRUE))

add_right_first(a, b) ==
    CASE a.tag = "Number" /\ b.tag = "Number" -> VOk(Number(NumAdd(a.n, b.n)))
      [] a.tag = "String" /\ b.tag = "String" -> VOk(String(b.s \o a.s))
      [] OTHER -> VErr

add(a, b) ==
    CASE a.tag = "Number" /\ b.tag = "Number" -> VOk(Number(NumAdd(a.n, b.n)))
      [] a.tag = "String" /\ b.tag = "String" -> VOk(String(a.s \o b.s))
      [] OTHER -> VErr

subtract(a, b) ==
    IF a.tag = "Number" /\ b.tag = "Number"
    THEN VOk(Number(NumSub(a.n, b.n))) ELSE VErr

divide(a, b) ==
    IF a.tag = "Number" /\ b.tag = "Number"
    THEN VOk(Number(NumDiv(a.n, b.n))) ELSE VErr

multiply(a, b) ==
    IF a.tag = "Number" /\ b.tag = "Number"
    THEN VOk(Number(NumMul(a.n, b.n))) ELSE VErr

greater(a, b) ==
    IF a.tag = "Number" /\ b.tag = "Number"
    THEN VOk(Boolean(NumLt(b.n, a.n))) ELSE VErr

greater_equal(a, b) ==
    IF a.tag = "Number" /\ b.tag = "Number"
    THEN VOk(Boolean(NumLt(b.n, a.n) \/ NumEq(a.n, b.n))) ELSE VErr

less(a, b) ==
    IF a.tag = "Number" /\ b.tag = "Number"
    THEN VOk(Boolean(NumLt(a.n, b.n))) ELSE VErr

less_equal(a, b) ==
    IF a.tag = "Number" /\ b.tag = "Number"
    THEN VOk(Boolean(NumLt(a.n, b.n) \/ NumEq(a.n, b.n))) ELSE VErr

is_equal_by_structure(a, b) == a = b

is_equal(a, b) ==
    CASE a.tag = "Number"  /\ b.tag = "Number"  -> NumEq(a.n, b.n)
      [] a.tag = "Boolean" /\ b.tag = "Boolean" -> a.b = b.b
      [] a.tag = "String"  /\ b.tag = "String"  -> a.s = b.s
      [] a.tag = "Null"    /\ b.tag = "Null"    -> TRUE
      [] OTHER -> FALSE

equals(a, b) == VOk(Boolean(is_equal(a, b)))

not_equals(a, b) == VOk(Boolean(~is_equal(a, b)))

\* Decimal text of a natural number, one character per digit.
RECURSIVE NatText(_)
NatText(i) ==
    IF i < 10 THEN <<ToString(i)>>
    ELSE Append(NatText(i \div 10), ToString(i % 10))

I32_MAX == 2147483647
I32_MIN == (0 - I32_MAX) - 1

\* i.to_string() of an i32; the magnitude of i32::MIN is one above i32::MAX
IntText(i) ==
    IF i >= 0 THEN NatText(i)
    ELSE IF i > I32_MIN THEN <<"-">> \o NatText(0 - i)
    ELSE <<"-">> \o Append(NatText(I32_MAX \div 10),
                           ToString((I32_MAX % 10) + 1))

\* The digits after the decimal point of r/d, r < d, d a power of two.
RECURSIVE FracText(_, _)
FracText(r, d) ==
    IF r = 0 THEN <<>>
    ELSE <<ToString((10 * r) \div d)>> \o FracText((10 * r) % d, d)

\* n as i32 of a number without fraction: the cast saturates
AsI32(x) ==
    IF x.cls = "big" THEN (IF x.neg THEN I32_MIN ELSE I32_MAX)
    ELSE IF Signed(x) > I32_MAX THEN I32_MAX
    ELSE IF Signed(x) < I32_MIN THEN I32_MIN
    ELSE Signed(x)

\* n.to_string() of an f32 that is no integer: the shortest decimal text that
\* reads back as the same f32, which for the few-digit binary fractions of
\* the model is the exact decimal expansion.
FloatText(x) ==
    CASE x.cls = "nan" -> <<"N", "a", "N">>
      [] x.cls = "inf" -> IF x.neg THEN <<"-", "i", "n", "f">> ELSE <<"i", "n", "f">>
      [] OTHER -> (IF x.neg THEN <<"-">> ELSE <<>>)
                  \o NatText(x.num \div x.den) \o <<".">>
                  \o FracText(x.num % x.den, x.den)

\* n.fract() == 0.0: false for NaN and the infinities, whose fract() is NaN
FractIsZero(x) == x.cls = "big" \/ (x.cls = "fin" /\ x.den = 1)

stringify(v) ==
    CASE v.tag = "Number" ->
           IF FractIsZero(v.n) THEN IntText(AsI32(v.n)) ELSE FloatText(v.n)
      [] v.tag = "Boolean" ->
           IF v.b THEN <<"t", "r", "u", "e">> ELSE <<"f", "a", "l", "s", "e">>
      [] v.tag = "String" -> v.s
      [] v.tag = "Null" -> <<"n", "i", "l">>

(***************************************************************************)
(* Environment (environment.rs): a map from names to values.               *)
(***************************************************************************)
EmptyEnvironment == [name \in {} |-> Null]

define_keep_first(env, name, value) ==
    [k \in DOMAIN env \cup {name} |->
        IF k \in DOMAIN env THEN env[k] ELSE value]

define(env, name, value) ==
    [k \in DOMAIN env \cup {name} |-> IF k = name THEN value ELSE env[k]]

Line(by, text) == [by |-> by, text |-> text]

\* get(token): [ok, v, out]; a missing name prints a line and is an Err
get(env, token) ==
    IF token.lexeme \in DOMAIN env
    THEN [ok |-> TRUE, v |-> env[token.lexeme], out |-> <<>>]
    ELSE [ok |-> FALSE, v |-> Null,
          out |-> <<Line("get", <<"Undefined variable '">> \o token.lexeme
                                \o <<"'.">>)>>]

(***************************************************************************)
(* Interpreter.  evaluate returns [ok, v, out]: the Result and the lines   *)
(* printed on the way; it takes &self and leaves the environment alone.    *)
(***************************************************************************)
EOk(v, out) == [ok |-> TRUE,  v |-> v,    out |-> out]
EErr(out)   == [ok |-> FALSE, v |-> Null, out |-> out]
Lift(r, out) == [ok |-> r.ok, v |-> r.v, out |-> out]

Interpreter_literal(e) ==
    CASE e.lit = "Boolean" -> EOk(Boolean(e.b), <<>>)
      [] e.lit = "Null"    -> EOk(Null, <<>>)
      [] e.lit = "String"  ->
           IF e.token.literal.kind = "STRING"
           THEN EOk(String(e.token.literal.s), <<>>) ELSE EErr(<<>>)
      [] e.lit = "Number"  ->
           IF e.token.literal.kind = "NUMBER"
           THEN EOk(Number(e.token.literal.n), <<>>) ELSE EErr(<<>>)

Interpreter_variable(env, e) == get(env, e.name)

binary_op(tt, left, right) ==
    CASE tt = "PLUS"          -> add(left, right)
      [] tt = "MINUS"         -> subtract(left, right)
      [] tt = "SLASH"         -> divide(left, right)
      [] tt = "STAR"          -> multiply(left, right)
      [] tt = "GREATER"       -> greater(left, right)
      [] tt = "GREATER_EQUAL" -> greater_equal(left, right)
      [] tt = "LESS"          -> less(left, right)
      [] tt = "LESS_EQUAL"    -> less_equal(left, right)
      [] tt = "BANG_EQUAL"    -> not_equals(left, right)
      [] tt = "EQUAL_EQUAL"   -> equals(left, right)
      [] OTHER                -> VErr

unary_op(tt, right) ==
    CASE tt = "MINUS" -> negate(right)
      [] tt = "BANG"  -> not(right)
      [] OTHER        -> VErr

RECURSIVE evaluate(_, _)

Interpreter_binary(env, e) ==
    LET left == evaluate(env, e.left)
    IN  IF ~left.ok THEN left
        ELSE LET right == evaluate(env, e.right)
             IN  IF ~right.ok THEN EErr(left.out \o right.out)
                 ELSE Lift(binary_op(e.operator.token_type, left.v, right.v),
                           left.out \o right.out)

Interpreter_grouping(env, e) == evaluate(env, e.expression)

Interpreter_unary(env, e) ==
    LET right == evaluate(env, e.right)
    IN  IF ~right.ok THEN right
        ELSE Lift(unary_op(e.operator.token_type, right.v), right.out)

evaluate(env, e) ==
    CASE e.kind = "Binary"   -> Interpreter_binary(env, e)
      [] e.kind = "Grouping" -> Interpreter_grouping(env, e)
      [] e.kind = "Unary"    -> Interpreter_unary(env, e)
      [] e.kind = "Literal"  -> Interpreter_literal(e)
      [] e.kind = "Variable" -> Interpreter_variable(env, e)

Interpreter_statement_binds_null(env, st) ==
    CASE st.kind = "Expression" ->
           LET r == evaluate(env, st.expr)
           IN  [ok |-> r.ok, v |-> r.v, out |-> r.out, env |-> env]
      [] st.kind = "Print" ->
           LET r == evaluate(env, st.expr)
           IN  IF ~r.ok THEN [ok |-> FALSE, v |-> Null, out |-> r.out, env |-> env]
               ELSE [ok |-> TRUE, v |-> r.v,
                     out |-> Append(r.out, Line("print", stringify(r.v))),
                     env |-> env]
      [] st.kind = "VarDeclaration" ->
           LET r == IF st.has_initializer THEN evaluate(env, st.initializer)
                    ELSE EOk(Null, <<>>)
           IN  [ok |-> r.ok, v |-> r.v, out |-> r.out,
                env |-> define(env, st.name.lexeme, r.v)]

\* statement(): [ok, v, out, env]
Interpreter_statement(env, st) ==
    CASE st.kind = "Expression" ->
           LET r == evaluate(env, st.expr)
           IN  [ok |-> r.ok, v |-> r.v, out |-> r.out, env |-> env]
      [] st.kind = "Print" ->
           LET r == evaluate(env, st.expr)
           IN  IF ~r.ok THEN [ok |-> FALSE, v |-> Null, out |-> r.out, env |-> env]
               ELSE [ok |-> TRUE, v |-> r.v,
                     out |-> Append(r.out, Line("print", stringify(r.v))),
                     env |-> env]
      [] st.kind = "VarDeclaration" ->
           LET r == IF st.has_initializer THEN evaluate(env, st.initializer)
                    ELSE EOk(Null, <<>>)
           IN  IF ~r.ok THEN [ok |-> FALSE, v |-> Null, out |-> r.out, env |-> env]
               ELSE [ok |-> TRUE, v |-> r.v, out |-> r.out,
                     env |-> define(env, st.name.lexeme, r.v)]

\* run() after parse(): main.rs:68-75 returns when the parse result "is
\* none" and hands it to interpret() otherwise.  Over the Vec<Option<..>>
\* that Parser::parse returns, the result is taken to be none when it
\* holds an absent slot; the statements are the unwrapped slots.
RunGate ==
    /\ pc = "parsed"
    /\ pc' = IF \E i \in 1..Len(statements) : ~statements[i].some
             THEN "done" ELSE "interpret"
    /\ UNCHANGED <<panicked, scanVars, tokens, reports, parseVars, interpVars>>

\* One iteration of the loop of interpret(): execute(statement), whose
\* unwrap() panics on an Err.
Execute ==
    /\ pc = "interpret"
    /\ next_stmt <= Len(statements)
    /\ LET r == Interpreter_statement(environment, statements[next_stmt].stmt)
       IN  /\ environment' = r.env
           /\ output' = output \o r.out
           /\ last' = [ok |-> r.ok, v |-> r.v]
           /\ pc' = IF r.ok THEN "interpret" ELSE "panic"
           /\ panicked' = IF r.ok THEN panicked ELSE "interpreter"
    /\ next_stmt' = next_stmt + 1
    /\ UNCHANGED <<scanVars, tokens, reports, parseVars>>

\* The end of interpret(), and of run().
InterpretEnd ==
    /\ pc = "interpret"
    /\ next_stmt > Len(statements)
    /\ pc' = "done"
    /\ UNCHANGED <<panicked, scanVars, tokens, reports, parseVars, interpVars>>

(***************************************************************************)
(* Initial states.                                                         *)
(***************************************************************************)
RECURSIVE SeqsUpTo(_, _)
SeqsUpTo(S, n) ==
    IF n = 0 THEN {<<>>}
    ELSE LET shorter == SeqsUpTo(S, n - 1)
         IN  shorter \cup {Append(s, x) : s \in shorter, x \in S}

RECURSIVE Flatten(_)
Flatten(ss) == IF ss = <<>> THEN <<>> ELSE Head(ss) \o Flatten(Tail(ss))

InitRest ==
    /\ panicked = "none"
    /\ start = 0 /\ current = 0 /\ line = 1
    /\ spans = <<>> /\ reports = <<>>
    /\ pcurrent = 0 /\ had_error = FALSE
    /\ statements = <<>> /\ attempts = <<>>
    /\ environment = EmptyEnvironment
    /\ output = <<>> /\ next_stmt = 1
    /\ last = VOk(Null)

ScanChars == {"1", ".", "a", "\"", "/", "=", "\n", " ", ";", "@", "U+00E9"}

InitScan ==
    /\ pc = "scan"
    /\ source \in SeqsUpTo(ScanChars, MaxSrcLen)
    /\ tokens = <<>>
    /\ InitRest

\* Token sequences as the scanner builds them, all on line 1.
Tok(tt, lexeme) == Token(tt, lexeme, NoLiteral, 1)
NumberTok(d) == Token("NUMBER", <<d>>, NumberLit(ParseNumber(<<d>>)), 1)
StringTok(c) == Token("STRING", <<"\"", c, "\"">>, StringLit(<<c>>), 1)
EofTok == Tok("EOF", <<>>)
SemicolonTok == Tok("SEMICOLON", <<";">>)

StmtTokens ==
    { Tok("PRINT", <<"p","r","i","n","t">>), Tok("VAR", <<"v","a","r">>),
      Tok("RETURN", <<"r","e","t","u","r","n">>),
      Tok("IDENTIFIER", <<"a">>), NumberTok("1"), Tok("EQUAL", <<"=">>),
      Tok("PLUS", <<"+">>), SemicolonTok }

InitParse ==
    /\ pc = "parse"
    /\ source = <<>>
    /\ tokens \in {Append(s, EofTok) : s \in SeqsUpTo(StmtTokens, MaxTokens)}
    /\ InitRest

ExprTokens ==
    { NumberTok("1"), Tok("MINUS", <<"-">>),
      Tok("STAR", <<"*">>), Tok("LESS", <<"<">>),
      Tok("EQUAL_EQUAL", <<"=","=">>),
      Tok("LEFT_PAREN", <<"(">>), Tok("RIGHT_PAREN", <<")">>) }

InitExpr ==
    /\ pc = "parse"
    /\ source = <<>>
    /\ tokens \in {s \o <<SemicolonTok, EofTok>> :
                      s \in SeqsUpTo(ExprTokens, MaxExprLen)}
    /\ InitRest

\* Chains of prefix operators before a primary: `op ... op primary ;`.
PrefixTokens == { Tok("MINUS", <<"-">>), Tok("BANG", <<"!">>) }

PrimaryTokens ==
    { NumberTok("1"), Tok("IDENTIFIER", <<"a">>), Tok("TRUE", <<"t","r","u","e">>) }

InitUnary ==
    /\ pc = "parse"
    /\ source = <<>>
    /\ tokens \in {ops \o <<p, SemicolonTok, EofTok>> :
                      ops \in SeqsUpTo(PrefixTokens, MaxPrefix),
                      p \in PrimaryTokens}
    /\ InitRest

NextScan == ScanStep \/ ScanEnd

NextParse == ParseStep \/ ParseEnd

SpecScan == InitScan /\ [][NextScan]_vars

SpecParse == InitParse /\ [][NextParse]_vars

\* Parser::parse is a sequential loop: while an iteration or the return is
\* possible, it is taken.  This is WF_vars(NextParse) written out, a step
\* of NextParse being enabled exactly while pc = "parse".
SpecParseFair ==
    /\ InitParse /\ [][NextParse]_vars
    /\ (<>[](pc = "parse") => []<><<NextParse>>_vars)

SpecExpr == InitExpr /\ [][NextParse]_vars

SpecUnary == InitUnary /\ [][NextParse]_vars

\* Source texts made of lexical pieces, scanned, parsed and run.
RunPieces ==
    { <<"p","r","i","n","t"," ">>, <<"v","a","r"," ">>, <<"a">>, <<"1">>,
      <<"\"","s","\"">>, <<"+">>, <<"=">>, <<";">>, <<"@">> }

InitRun ==
    /\ pc = "scan"
    /\ source \in {Flatten(ps) : ps \in SeqsUpTo(RunPieces, MaxPieces)}
    /\ tokens = <<>>
    /\ InitRest

Next ==
    \/ ScanStep \/ ScanEnd \/ ParseStep \/ ParseEnd
    \/ RunGate \/ Execute \/ InterpretEnd

Spec == InitRun /\ [][Next]_vars

\* Statements `L op R ;` over operands of every variant, parsed and run.
Operands ==
    { <<NumberTok("0")>>, <<NumberTok("1")>>, <<NumberTok("2")>>,
      <<Tok("MINUS", <<"-">>), NumberTok("0")>>,
      <<Tok("MINUS", <<"-">>), NumberTok("1")>>,
      <<NumberTok("0"), Tok("SLASH", <<"/">>), NumberTok("0")>>,
      <<NumberTok("1"), Tok("SLASH", <<"/">>), NumberTok("0")>>,
      <<NumberTok("1"), Tok("SLASH", <<"/">>), NumberTok("2")>>,
      <<StringTok("a")>>, <<StringTok("1")>>,
      <<Tok("TRUE", <<"t","r","u","e">>)>>,
      <<Tok("FALSE", <<"f","a","l","s","e">>)>>,
      <<Tok("NIL", <<"n","i","l">>)>>,
      <<Tok("IDENTIFIER", <<"a">>)>> }

BinaryOperators ==
    { Tok("EQUAL_EQUAL", <<"=","=">>), Tok("BANG_EQUAL", <<"!","=">>),
      Tok("PLUS", <<"+">>), Tok("MINUS", <<"-">>), Tok("STAR", <<"*">>),
      Tok("SLASH", <<"/">>), Tok("LESS", <<"<">>),
      Tok("LESS_EQUAL", <<"<","=">>), Tok("GREATER", <<">">>),
      Tok("GREATER_EQUAL", <<">","=">>) }

InitBinary ==
    /\ pc = "parse"
    /\ source = <<>>
    /\ tokens \in {l \o <<op>> \o r \o <<SemicolonTok, EofTok>> :
                      l \in Operands, op \in BinaryOperators, r \in Operands}
    /\ InitRest

NextRun == ParseStep \/ ParseEnd \/ RunGate \/ Execute \/ InterpretEnd

SpecBinary == InitBinary /\ [][NextRun]_vars

\* Statements `L op R ;` and `op R ;` over operands of every variant.
InitOperators ==
    /\ pc = "parse"
    /\ source = <<>>
    /\ tokens \in
         {l \o <<op>> \o r \o <<SemicolonTok, EofTok>> :
             l \in Operands, op \in BinaryOperators, r \in Operands}
         \cup {<<op>> \o r \o <<SemicolonTok, EofTok>> :
                  op \in PrefixTokens, r \in Operands}
    /\ InitRest

SpecOperators == InitOperators /\ [][NextRun]_vars

\* Programs of declarations and uses of the variables a and b; c is never
\* declared, and `1 + nil` is a type mismatch.
Ident(c) == Tok("IDENTIFIER", <<c>>)
VarTok == Tok("VAR", <<"v","a","r">>)
PrintTok == Tok("PRINT", <<"p","r","i","n","t">>)
EqualTok == Tok("EQUAL", <<"=">>)

ProgramStatements ==
    { <<VarTok, Ident("a"), EqualTok, NumberTok("1"), SemicolonTok>>,
      <<VarTok, Ident("a"), EqualTok, NumberTok("2"), SemicolonTok>>,
      <<VarTok, Ident("b"), EqualTok, StringTok("s"), SemicolonTok>>,
      <<VarTok, Ident("b"), EqualTok, Ident("a"), SemicolonTok>>,
      <<VarTok, Ident("a"), SemicolonTok>>,
      <<VarTok, Ident("a"), EqualTok, Ident("c"), SemicolonTok>>,
      <<VarTok, Ident("b"), EqualTok, NumberTok("1"), Tok("PLUS", <<"+">>),
        Tok("NIL", <<"n","i","l">>), SemicolonTok>>,
      <<PrintTok, Ident("a"), SemicolonTok>>,
      <<PrintTok, Ident("b"), SemicolonTok>>,
      <<Ident("c"), SemicolonTok>> }

InitProgram ==
    /\ pc = "parse"
    /\ source = <<>>
    /\ tokens \in {Append(Flatten(ss), EofTok) :
                      ss \in SeqsUpTo(ProgramStatements, MaxStatements)}
    /\ InitRest

SpecProgram == InitProgram /\ [][NextRun]_vars

\* Statements `print V ;` and `print - V ;` over values of every variant,
\* with whole numbers on both sides of the range of an i32.  Every number
\* literal is exactly representable in an f32.
NumberTextTok(text) == Token("NUMBER", text, NumberLit(ParseNumber(text)), 1)

PrintOperands ==
    { <<NumberTextTok(<<"0">>)>>, <<NumberTextTok(<<"1">>)>>,
      <<NumberTextTok(<<"7">>)>>, <<NumberTextTok(<<"2","5","5">>)>>,
      <<NumberTextTok(<<"1","6","7","7","7","2","1","6">>)>>,
      <<NumberTextTok(<<"2","1","4","7","4","8","3","5","2","0">>)>>,
      <<NumberTextTok(<<"2","1","4","7","4","8","3","6","4","8">>)>>,
      <<NumberTextTok(<<"4","2","9","4","9","6","7","2","9","6">>)>>,
      <<NumberTextTok(<<"6","4","4","2","4","5","0","9","4","4">>)>>,
      <<NumberTextTok(<<"1">>), Tok("SLASH", <<"/">>), NumberTextTok(<<"2">>)>>,
      <<NumberTextTok(<<"1">>), Tok("SLASH", <<"/">>), NumberTextTok(<<"0">>)>>,
      <<StringTok("s")>>, <<StringTok("1")>>,
      <<Tok("TRUE", <<"t","r","u","e">>)>>,
      <<Tok("FALSE", <<"f","a","l","s","e">>)>>,
      <<Tok("NIL", <<"n","i","l">>)>> }

InitPrint ==
    /\ pc = "parse"
    /\ source = <<>>
    /\ tokens \in {<<PrintTok>> \o sign \o v \o <<SemicolonTok, EofTok>> :
                      sign \in {<<>>, <<Tok("MINUS", <<"-">>)>>},
                      v \in PrintOperands}
    /\ InitRest

SpecPrint == InitPrint /\ [][NextRun]_vars

(***************************************************************************)
(* Properties.                                                             *)
(***************************************************************************)

\* C1: a runtime error raised while a statement is executed is an error
\* outcome and no crash: Interpreter::interpret returns normally for every
\* statement list, so the interpreter never panics.
C1_RuntimeErrorIsNoCrash == panicked # "interpreter"

\* C2: whenever a declaration of parse() reports a syntax diagnostic, that
\* declaration fails (its slot holds no Statement) and had_error is true.
C2_DiagnosticFailsDeclaration ==
    \A i \in 1..Len(attempts) :
        attempts[i].diags # <<>> =>
            /\ ~attempts[i].ok
            /\ ~statements[i].some
            /\ had_error

\* C3: once scanning or parsing has reported a syntax error, run() executes
\* none of the statements: no print statement prints and the environment
\* stays as it was.
C3_NoExecutionAfterSyntaxError ==
    reports # <<>> =>
        /\ \A i \in 1..Len(output) : output[i].by # "print"
        /\ environment = EmptyEnvironment

\* The node of a primary token, and the nesting of prefix operators around
\* it, the leftmost operator outermost.
PrimaryNode(t) ==
    IF t.token_type = "IDENTIFIER" THEN variable(t) ELSE literal(t)

RECURSIVE NestedUnary(_, _)
NestedUnary(ops, p) ==
    IF ops = <<>> THEN PrimaryNode(p)
    ELSE unary(Head(ops), NestedUnary(Tail(ops), p))

\* C4: a chain of prefix operators '-' and '!' before a primary parses
\* without error into nested Unary nodes, the leftmost operator outermost.
C4_PrefixChainParses ==
    pc = "parsed" =>
        /\ ~had_error
        /\ reports = <<>>
        /\ statements =
             << Some([kind |-> "Expression",
                      expr |-> NestedUnary(SubSeq(tokens, 1, Len(tokens) - 3),
                                           tokens[Len(tokens) - 2])]) >>

\* Precedence levels of the grammar, lowest first.
OperatorLevel(tt) ==
    CASE tt \in {"BANG_EQUAL", "EQUAL_EQUAL"} -> 1
      [] tt \in {"LESS", "LESS_EQUAL", "GREATER", "GREATER_EQUAL"} -> 2
      [] tt \in {"MINUS", "PLUS"} -> 3
      [] tt \in {"SLASH", "STAR"} -> 4
      [] OTHER -> 0

NodeLevel(e) ==
    CASE e.kind = "Binary" -> OperatorLevel(e.operator.token_type)
      [] e.kind = "Unary"  -> 5
      [] OTHER             -> 6

\* A tree follows the precedence order and left associativity: the left
\* operand of a binary operator binds at least as tightly as the operator,
\* the right operand strictly tighter, the operand of a prefix operator is
\* a unary or a primary, and only a Grouping holds a looser expression.
RECURSIVE WellShaped(_)
WellShaped(e) ==
    CASE e.kind = "Binary" ->
           /\ OperatorLevel(e.operator.token_type) > 0
           /\ NodeLevel(e.left) >= OperatorLevel(e.operator.token_type)
           /\ NodeLevel(e.right) > OperatorLevel(e.operator.token_type)
           /\ WellShaped(e.left)
           /\ WellShaped(e.right)
      [] e.kind = "Unary" ->
           /\ e.operator.token_type \in {"MINUS", "BANG"}
           /\ NodeLevel(e.right) >= 5
           /\ WellShaped(e.right)
      [] e.kind = "Grouping" -> WellShaped(e.expression)
      [] OTHER -> TRUE

\* The token types a tree was parsed from, left to right.
RECURSIVE Yield(_)
Yield(e) ==
    CASE e.kind = "Binary" ->
           Yield(e.left) \o <<e.operator.token_type>> \o Yield(e.right)
      [] e.kind = "Unary" -> <<e.operator.token_type>> \o Yield(e.right)
      [] e.kind = "Grouping" ->
           <<"LEFT_PAREN">> \o Yield(e.expression) \o <<"RIGHT_PAREN">>
      [] e.kind = "Literal" ->
           IF e.lit = "Boolean" THEN <<IF e.b THEN "TRUE" ELSE "FALSE">>
           ELSE <<e.token.token_type>>
      [] e.kind = "Variable" -> <<e.name.token_type>>

TokenTypes(from, to) == [i \in 1..(to - from) |-> tokens[from + i].token_type]

One      == literal(NumberTok("1"))
MinusTok == Tok("MINUS", <<"-">>)
StarTok  == Tok("STAR", <<"*">>)

ExprStatement(e) == <<Some([kind |-> "Expression", expr |-> e])>>

C6_Starters ==
    {"CLASS", "FUN", "VAR", "FOR", "IF", "WHILE", "PRINT", "RETURN"}

C6_Boundary(k) ==
    \/ tokens[k + 1].token_type = "EOF"
    \/ k >= 1 /\ tokens[k].token_type = "SEMICOLON"
    \/ tokens[k + 1].token_type \in C6_Starters

\* C6: after a failed declaration synchronize() consumes the offending token
\* and stops at the first statement boundary that follows: where it returns
\* the next token is end-of-input, or the token just consumed is a
\* semicolon, or the next token is a statement keyword; it passed no
\* boundary on the way, and the next declaration is parsed from there (a
\* `print 1 ;` that starts at the boundary becomes a Print statement).
C6_SynchronizeStopsAtBoundary ==
    \A i \in 1..Len(attempts) :
        ~attempts[i].ok =>
            LET c0 == attempts[i].to
                c1 == attempts[i].resume
            IN  /\ C6_Boundary(c1)
                /\ c1 = IF tokens[c0 + 1].token_type = "EOF" THEN c0
                        ELSE CHOOSE k \in (c0 + 1)..(Len(tokens) - 1) :
                                /\ C6_Boundary(k)
                                /\ \A j \in (c0 + 1)..(k - 1) : ~C6_Boundary(j)
                /\ i < Len(attempts) =>
                     /\ attempts[i + 1].from = c1
                     /\ (/\ c1 + 3 < Len(tokens)
                         /\ TokenTypes(c1, c1 + 3)
                              = <<"PRINT", "NUMBER", "SEMICOLON">>)
                        => /\ attempts[i + 1].ok
                           /\ attempts[i + 1].to = c1 + 3
                           /\ statements[i + 1]
                                = Some([kind |-> "Print",
                                        expr |-> literal(tokens[c1 + 2])])
                /\ i = Len(attempts) => pcurrent = c1

C6_Witness ==
    \E i \in 1..(Len(attempts) - 1) :
        /\ ~attempts[i].ok
        /\ attempts[i].resume >= attempts[i].to + 2
        /\ tokens[attempts[i].resume + 1].token_type = "PRINT"
        /\ attempts[i + 1].ok

\* C7: parse() never aborts: every declaration attempt adds exactly one
\* slot, in source order, a Statement when it succeeded and an empty slot
\* when it failed; had_error holds exactly when there is an empty slot; the
\* attempts cover the tokens up to end-of-input, so the statements after a
\* failed declaration are in the output.
C7_OneSlotPerDeclaration ==
    /\ panicked = "none"
    /\ Len(statements) = Len(attempts)
    /\ \A i \in 1..Len(attempts) :
         /\ statements[i].some = attempts[i].ok
         /\ attempts[i].from = IF i = 1 THEN 0 ELSE attempts[i - 1].resume
         /\ attempts[i].from < attempts[i].resume
    /\ had_error = (\E i \in 1..Len(statements) : ~statements[i].some)
    /\ pcurrent = IF attempts = <<>> THEN 0
                  ELSE attempts[Len(attempts)].resume
    /\ pc = "parsed" => pcurrent = Len(tokens) - 1

C7_Witness ==
    /\ pc = "parsed"
    /\ \E i, j \in 1..Len(statements) :
         i < j /\ ~statements[i].some /\ statements[j].some

\* C8: the sequence scan_tokens returns ends with the one end-of-input token
\* (empty lexeme); every other token has a non-empty lexeme, the source text
\* between the start cursor and the current cursor when it was emitted, and
\* the tokens are in source order.
C8_TokensOfScan ==
    pc = "parse" =>
        /\ Len(tokens) = Len(spans) + 1
        /\ tokens[Len(tokens)].token_type = "EOF"
        /\ tokens[Len(tokens)].lexeme = <<>>
        /\ \A i \in 1..Len(spans) :
             /\ tokens[i].token_type # "EOF"
             /\ tokens[i].lexeme # <<>>
             /\ tokens[i].lexeme = SubSeq(source, spans[i][1] + 1, spans[i][2])
             /\ i > 1 => spans[i - 1][2] <= spans[i][1]

C8_Witness ==
    /\ pc = "parse"
    /\ Len(tokens) = 3
    /\ tokens[1].token_type = "STRING"
    /\ tokens[2].token_type = "NUMBER"

\* C9: scanning never aborts, whatever the source text holds: the scanner
\* does not panic.
C9_ScanNeverAborts == panicked # "scanner"

\* The operands of the statement `L op R ;` once it has run.
C10_IsEqualityStatement ==
    /\ pc = "done"
    /\ statements[1].stmt.expr.kind = "Binary"
    /\ statements[1].stmt.expr.operator.token_type
         \in {"EQUAL_EQUAL", "BANG_EQUAL"}
    /\ evaluate(EmptyEnvironment, statements[1].stmt.expr.left).ok
    /\ evaluate(EmptyEnvironment, statements[1].stmt.expr.right).ok

C10_Left  == evaluate(EmptyEnvironment, statements[1].stmt.expr.left).v
C10_Right == evaluate(EmptyEnvironment, statements[1].stmt.expr.right).v
C10_IsNegated ==
    statements[1].stmt.expr.operator.token_type = "BANG_EQUAL"

\* Same variant and equal by value; 0.0 and -0.0 are one value.
C10_SameValue(a, b) ==
    /\ a.tag = b.tag
    /\ a = b \/ (a.tag = "Number" /\ IsZero(a.n) /\ IsZero(b.n))

C10_IsNaN(a) == a.tag = "Number" /\ a.n.cls = "nan"

\* C10 as claimed: == and != never fail; a == b is true exactly when a and b
\* are the same variant and equal by value, so a == a is true for every
\* value; a != b is its negation.
C10_EqualityAsClaimed ==
    (pc \in {"done", "panic"} /\ Len(statements) = 1 /\ statements[1].some
       /\ statements[1].stmt.expr.kind = "Binary"
       /\ statements[1].stmt.expr.operator.token_type
            \in {"EQUAL_EQUAL", "BANG_EQUAL"}
       /\ evaluate(EmptyEnvironment, statements[1].stmt.expr.left).ok
       /\ evaluate(EmptyEnvironment, statements[1].stmt.expr.right).ok)
    => /\ pc = "done"
       /\ last = VOk(Boolean(C10_SameValue(C10_Left, C10_Right) # C10_IsNegated))

\* C10 as amended: == and != never fail; a == b is true exactly when a and b
\* are the same variant, equal by value and not the Number NaN (0/0), which
\* equals nothing, itself included; a != b is the negation of a == b; ==
\* is symmetric, and reflexive for every value but NaN.
C10_EqualityExceptNaN ==
    (pc \in {"done", "panic"} /\ Len(statements) = 1 /\ statements[1].some
       /\ statements[1].stmt.expr.kind = "Binary"
       /\ statements[1].stmt.expr.operator.token_type
            \in {"EQUAL_EQUAL", "BANG_EQUAL"}
       /\ evaluate(EmptyEnvironment, statements[1].stmt.expr.left).ok
       /\ evaluate(EmptyEnvironment, statements[1].stmt.expr.right).ok)
    => /\ pc = "done"
       /\ last = VOk(Boolean(
              (/\ C10_SameValue(C10_Left, C10_Right)
               /\ ~C10_IsNaN(C10_Left)
               /\ ~C10_IsNaN(C10_Right)) # C10_IsNegated))

C10_Witness ==
    /\ C10_IsEqualityStatement
    /\ ~C10_IsNegated
    /\ C10_IsNaN(C10_Left)
    /\ C10_Left = C10_Right
    /\ last = VOk(Boolean(FALSE))

\* The one statement of the program has been executed; its expression and
\* the values of its operands.
C11_Ran ==
    /\ pc \in {"done", "panic"}
    /\ Len(statements) = 1 /\ statements[1].some
    /\ next_stmt = 2

C11_Expr == statements[1].stmt.expr
C11_Op == C11_Expr.operator.token_type
C11_L == evaluate(EmptyEnvironment, C11_Expr.left)
C11_R == evaluate(EmptyEnvironment, C11_Expr.right)

C11_IsBinary ==
    /\ C11_Ran
    /\ C11_Expr.kind = "Binary"
    /\ C11_L.ok /\ C11_R.ok

C11_IsUnary ==
    /\ C11_Ran
    /\ C11_Expr.kind = "Unary"
    /\ C11_R.ok

C11_BothNumber == C11_L.v.tag = "Number" /\ C11_R.v.tag = "Number"
C11_BothString == C11_L.v.tag = "String" /\ C11_R.v.tag = "String"

\* The sum of two finite numbers, stated on the fractions.
C11_IsSum(x, y, z) ==
    (x.cls = "fin" /\ y.cls = "fin")
    => /\ z.cls = "fin"
       /\ Signed(z) * x.den * y.den
            = (Signed(x) * y.den + Signed(y) * x.den) * z.den

\* C11: -, *, / and >, >=, <, <= succeed exactly when both operands are
\* Number (with a Number, respectively a Boolean, as the value); + succeeds
\* exactly for Number+Number, giving the sum, and String+String, giving the
\* concatenation with the left operand first; every other combination of
\* operand variants is a runtime error with no value and no output; unary -
\* succeeds exactly on a Number, unary ! never fails and gives true exactly
\* for Null and Boolean false.
C11_OperandChecks ==
    /\ (C11_IsBinary /\ C11_Op \in {"MINUS", "STAR", "SLASH"})
         => IF C11_BothNumber
            THEN last.ok /\ last.v.tag = "Number"
            ELSE last = VErr /\ output = <<>>
    /\ (C11_IsBinary
          /\ C11_Op \in {"GREATER", "GREATER_EQUAL", "LESS", "LESS_EQUAL"})
         => IF C11_BothNumber
            THEN last.ok /\ last.v.tag = "Boolean"
            ELSE last = VErr /\ output = <<>>
    /\ (C11_IsBinary /\ C11_Op = "PLUS")
         => CASE C11_BothNumber ->
                   /\ last.ok /\ last.v.tag = "Number"
                   /\ C11_IsSum(C11_L.v.n, C11_R.v.n, last.v.n)
              [] C11_BothString ->
                   last = VOk(String(C11_L.v.s \o C11_R.v.s))
              [] OTHER -> last = VErr /\ output = <<>>
    /\ (C11_IsUnary /\ C11_Op = "MINUS")
         => IF C11_R.v.tag = "Number"
            THEN last.ok /\ last.v.tag = "Number"
            ELSE last = VErr /\ output = <<>>
    /\ (C11_IsUnary /\ C11_Op = "BANG")
         => last = VOk(Boolean(C11_R.v = Null \/ C11_R.v = Boolean(FALSE)))

\* `"a" + "1"` has given "a1".
C11_Witness ==
    /\ C11_IsBinary
    /\ C11_Op = "PLUS"
    /\ C11_L.v = String(<<"a">>)
    /\ C11_R.v = String(<<"1">>)
    /\ last = VOk(String(<<"a", "1">>))

\* The number of statements that have been executed with success: every
\* executed statement but the one that failed.
C12_Succeeded ==
    IF panicked = "interpreter" THEN next_stmt - 2 ELSE next_stmt - 1

C12_Names == {<<"a">>, <<"b">>, <<"c">>}

C12_Declares(i, name) ==
    /\ statements[i].stmt.kind = "VarDeclaration"
    /\ statements[i].stmt.name.lexeme = name

C12_Declared(name, k) == \E i \in 1..k : C12_Declares(i, name)

\* The value the most recent of the first k statements that declare the
\* name has given it, read off the program text: the literal of the
\* initializer, the value its variable had before, or Null without one.
RECURSIVE C12_Expected(_, _)
C12_Expected(name, k) ==
    LET i  == CHOOSE j \in 1..k :
                /\ C12_Declares(j, name)
                /\ \A m \in (j + 1)..k : ~C12_Declares(m, name)
        st == statements[i].stmt
    IN  CASE ~st.has_initializer -> Null
          [] st.initializer.kind = "Variable" ->
               C12_Expected(st.initializer.name.lexeme, i - 1)
          [] st.initializer.lit = "Number" ->
               Number(st.initializer.token.literal.n)
          [] st.initializer.lit = "String" ->
               String(st.initializer.token.literal.s)

C12_Undefined(name) ==
    Line("get", <<"Undefined variable '">> \o name \o <<"'.">>)

\* C12: the environment is a flat last-write-wins map: after any sequence of
\* statements, get(name) succeeds exactly for the names some executed
\* declaration has defined and returns the value of the most recent one
\* (other names' defines do not change it); get of a name never defined is
\* an error, never a default value; and a statement that reads a variable
\* yields just that.
C12_LastWriteWins ==
    /\ \A name \in C12_Names :
          LET r == get(environment, Ident(name[1]))
          IN  IF C12_Declared(name, C12_Succeeded)
              THEN r = [ok |-> TRUE,
                        v |-> C12_Expected(name, C12_Succeeded),
                        out |-> <<>>]
              ELSE ~r.ok /\ r.out = <<C12_Undefined(name)>>
    /\ (next_stmt > 1 /\ statements[next_stmt - 1].stmt.kind \in {"Print", "Expression"})
         => LET name == statements[next_stmt - 1].stmt.expr.name.lexeme
            IN  IF C12_Declared(name, next_stmt - 2)
                THEN /\ last = VOk(C12_Expected(name, next_stmt - 2))
                     /\ panicked = "none"
                     /\ statements[next_stmt - 1].stmt.kind = "Print"
                          => output[Len(output)]
                               = Line("print", stringify(last.v))
                ELSE /\ last = VErr
                     /\ output[Len(output)] = C12_Undefined(name)

\* `var a = 1; var a = 2; print a;` has printed 2.
C12_Witness ==
    /\ pc = "done"
    /\ Len(statements) = 3
    /\ C12_Declares(1, <<"a">>) /\ C12_Declares(2, <<"a">>)
    /\ statements[1].stmt.initializer = literal(NumberTok("1"))
    /\ statements[2].stmt.initializer = literal(NumberTok("2"))
    /\ statements[3].stmt.kind = "Print"
    /\ output = <<Line("print", <<"2">>)>>

\* The statement `print V ;` has printed the value in `last`.
C13_Printed ==
    /\ pc \in {"interpret", "done"}
    /\ next_stmt = 2
    /\ statements[1].stmt.kind = "Print"
    /\ last.ok

\* Three decimal digits of i < 1000.
C13_Digits3(i) ==
    <<ToString(i \div 100), ToString((i \div 10) % 10), ToString(i % 10)>>

\* The decimal text of the whole number m * 65536, m >= 32768, computed in
\* thousands: m * 65536 = (m div 1000) * 65536 * 1000 + (m mod 1000) * 65536.
C13_BigText(m) ==
    LET low == (m % 1000) * 65536
    IN  NatText((m \div 1000) * 65536 + low \div 1000)
        \o C13_Digits3(low % 1000)

\* The decimal integer text of a number without fraction.
C13_DecimalText(x) ==
    (IF x.neg /\ ~IsZero(x) THEN <<"-">> ELSE <<>>)
    \o (IF x.cls = "big" THEN C13_BigText(x.num) ELSE NatText(x.num))

C13_IsWhole(x) == x.cls = "big" \/ (x.cls = "fin" /\ x.den = 1)

\* C13: a Number whose fractional part is zero prints as the decimal
\* integer text of that same value, without a decimal point, whatever its
\* magnitude; Boolean prints as true or false, String verbatim, Null as nil.
C13_StringifyIntegral ==
    C13_Printed =>
      output[Len(output)].text =
        CASE last.v.tag = "Number" /\ C13_IsWhole(last.v.n) ->
               C13_DecimalText(last.v.n)
          [] last.v.tag = "Number" -> stringify(last.v)
          [] last.v.tag = "Boolean" ->
               IF last.v.b THEN <<"t","r","u","e">> ELSE <<"f","a","l","s","e">>
          [] last.v.tag = "String" -> last.v.s
          [] last.v.tag = "Null" -> <<"n","i","l">>

\* Every iteration of the parse loop so far has consumed a token, and the
\* cursor is in bounds.
C14_Progress ==
    /\ panicked # "parser"
    /\ pcurrent + 1 <= Len(tokens)
    /\ \A i \in 1..pcurrent : tokens[i].token_type # "EOF"
    /\ Len(attempts) <= pcurrent
    /\ \A i \in 1..Len(attempts) :
          LET a == attempts[i]
          IN  /\ a.from <= a.to /\ a.to <= a.resume
              /\ a.resume > a.from
              /\ a.ok => (a.to > a.from /\ a.resume = a.to)
              /\ ~a.ok => IF tokens[a.to + 1].token_type = "EOF"
                          THEN a.resume = a.to
                          ELSE a.resume > a.to

\* C14: parse() terminates on every token sequence that ends with the
\* end-of-input token: every iteration of its loop consumes at least one
\* token (a successful declaration one or more, a failed one through
\* synchronize(), which advances unless at end-of-input), the cursor never
\* moves past the end-of-input token, previous() is never called at cursor
\* 0 (the parser does not panic), and the loop ends.
C14_ParseTerminates == []C14_Progress /\ <>(pc = "parsed")

\* `; 1 ;`: a declaration that failed at cursor 0 without consuming a
\* token, synchronize(), a declaration, and the end of parse().
C14_Witness ==
    /\ pc = "parsed"
    /\ Len(attempts) = 2
    /\ ~attempts[1].ok /\ attempts[1].from = 0 /\ attempts[1].to = 0
    /\ attempts[1].resume = 1
    /\ attempts[2].ok
    /\ pcurrent + 1 = Len(tokens)

\* C15: a statement whose evaluation fails leaves the environment
\* unchanged, and so does every statement that only evaluates an
\* expression: the environment changes only when a var declaration
\* succeeds.  A failing `var x = y;` defines nothing: x keeps the value it
\* had, or stays undefined.
C15_FailureLeavesEnvironment ==
    [][ next_stmt' = next_stmt + 1 =>
          \/ environment' = environment
          \/ /\ last'.ok
             /\ statements[next_stmt].stmt.kind = "VarDeclaration" ]_vars

\* After `var a = 1;` the statement `var a = c;` has failed, and a is
\* still bound to 1.
C15_Witness ==
    /\ panicked = "interpreter"
    /\ next_stmt = 3
    /\ C12_Declares(1, <<"a">>) /\ C12_Declares(2, <<"a">>)
    /\ statements[2].stmt.initializer = variable(Ident("c"))
    /\ ~last.ok
    /\ environment = define(EmptyEnvironment, <<"a">>, Number(Fin(FALSE, 1, 1)))

====
